---- MODULE Spec2Model ----
(***************************************************************************)
(* Model of dep-checker: the release resolution and artifact validation    *)
(* core (GitHubClient, ZipHandler, ComponentValidator and                  *)
(* DependencyValidator).                                                   *)
(*                                                                         *)
(* Strings whose characters the code looks at (repository paths, asset     *)
(* names, directory entry names) are sequences of one-character strings.   *)
(* Strings the code only compares as a whole (tags, fixed messages) are    *)
(* TLA+ strings.  An optional value is a sequence of length 0 or 1.        *)
(***************************************************************************)
EXTENDS Integers, Sequences, FiniteSets, TLC

VARIABLES
    pc,              \* position in validateRepository / validateRelease
    repoPath,        \* argument repoPath
    optRelease,      \* options.release: <<>> (undefined), <<"*">> or <<tag>>
    optFull,         \* options.full
    token,           \* GitHubClient.token: <<>> or <<credential>>
    repo,            \* repo part returned by parseRepoPath
    releases,        \* the list returned by getReleases
    releasesToCheck, \* the selected releases
    idx,             \* position of the for-loop in releasesToCheck
    result,          \* the ValidationResult under construction
    rr,              \* the ReleaseValidation under construction
    matchingZip,     \* the matched asset: <<>> or <<name>>
    tempDir,         \* local tempDir of validateRelease: <<>> or <<dir>>
    disk,            \* scratch directories that exist under the temp root
    extracted,       \* the tree unzip left in <tempDir>/extracted
    calls,           \* history: network and filesystem operations performed
    input,           \* argument of the function under test
    output           \* its result

vars ==
    <<pc, repoPath, optRelease, optFull, token, repo, releases,
      releasesToCheck, idx, result, rr, matchingZip, tempDir, disk,
      extracted, calls, input, output>>

----------------------------------------------------------------------------
(* Bounds                                                                  *)

MaxReleases == 2

MaxAssets == 2

MaxEntries == 2

----------------------------------------------------------------------------
(* JavaScript string primitives                                            *)

UpperLetters ==
    <<"A","B","C","D","E","F","G","H","I","J","K","L","M",
      "N","O","P","Q","R","S","T","U","V","W","X","Y","Z">>

LowerLetters ==
    <<"a","b","c","d","e","f","g","h","i","j","k","l","m",
      "n","o","p","q","r","s","t","u","v","w","x","y","z">>

toLowerChar(c) ==
    IF \E i \in 1..26 : UpperLetters[i] = c
    THEN LowerLetters[CHOOSE i \in 1..26 : UpperLetters[i] = c]
    ELSE c

toLowerCase(s) ==
    [i \in 1..Len(s) |-> toLowerChar(s[i])]

endsWith(s, suffix) ==
    /\ Len(s) >= Len(suffix)
    /\ SubSeq(s, Len(s) - Len(suffix) + 1, Len(s)) = suffix

startsWith(s, prefix) ==
    /\ Len(s) >= Len(prefix)
    /\ SubSeq(s, 1, Len(prefix)) = prefix

IsSpace(c) ==
    c = " "

RECURSIVE trimStart(_)
trimStart(s) ==
    IF s # <<>> /\ IsSpace(Head(s)) THEN trimStart(Tail(s)) ELSE s

RECURSIVE trimEnd(_)
trimEnd(s) ==
    IF s # <<>> /\ IsSpace(s[Len(s)])
    THEN trimEnd(SubSeq(s, 1, Len(s) - 1))
    ELSE s

trim(s) ==
    trimEnd(trimStart(s))

\* s.split(sep) for a one-character separator: always at least one part.
RECURSIVE split(_, _)
split(s, sep) ==
    IF \E i \in 1..Len(s) : s[i] = sep
    THEN LET k == CHOOSE i \in 1..Len(s) :
                      /\ s[i] = sep
                      /\ \A j \in 1..(i - 1) : s[j] # sep
         IN  <<SubSeq(s, 1, k - 1)>> \o split(SubSeq(s, k + 1, Len(s)), sep)
    ELSE <<s>>

\* the positions of s whose element satisfies the predicate of a callback
\* are written {i \in DOMAIN s : ...}; Array.prototype.find returns the
\* element at the first of them, as an optional value
find(s, hits) ==
    IF hits = {} THEN <<>>
    ELSE <<s[CHOOSE i \in hits : \A j \in hits : i <= j]>>

Err(kind, detail) ==
    [kind |-> kind, detail |-> detail]

----------------------------------------------------------------------------
(* GitHubClient                                                            *)

DotZip == <<".", "z", "i", "p">>

\* line 79 without the call of trim
parseRepoPath_noTrim(path) ==
    LET parts == split(path, "/")
    IN  IF Len(parts) # 2 \/ parts[1] = <<>> \/ parts[2] = <<>>
        THEN <<>>
        ELSE <<[owner |-> parts[1], repo |-> parts[2]]>>

\* parseRepoPath: <<>> when it throws, <<[owner, repo]>> otherwise
parseRepoPath(path) ==
    LET parts == split(trim(path), "/")
    IN  IF Len(parts) # 2 \/ parts[1] = <<>> \/ parts[2] = <<>>
        THEN <<>>
        ELSE <<[owner |-> parts[1], repo |-> parts[2]]>>

getHeaders ==
    {"Accept", "User-Agent"} \cup
        (IF token # <<>> THEN {"Authorization"} ELSE {})

downloadAssetHeaders ==
    {"User-Agent"}

----------------------------------------------------------------------------
(* DependencyValidator.validateRelease: asset matching                     *)

\* a.name.toLowerCase().endsWith('.zip')
isZipAsset(a) ==
    endsWith(toLowerCase(a.name), DotZip)

zipAssets(release) ==
    SelectSeq(release.assets, isZipAsset)

\* a.name.replace(/\.zip$/i, '')
nameWithoutExt(name) ==
    IF endsWith(toLowerCase(name), DotZip)
    THEN SubSeq(name, 1, Len(name) - Len(DotZip))
    ELSE name

\* lines 232-234 comparing without toLowerCase
matchesRepoName_caseSensitive(a, expectedRepoName) ==
    LET n == nameWithoutExt(a.name)
        e == expectedRepoName
    IN  \/ n = e
        \/ startsWith(n, e \o <<"-">>)
        \/ startsWith(n, e \o <<"_">>)

matchesRepoName(a, expectedRepoName) ==
    LET n == toLowerCase(nameWithoutExt(a.name))
        e == toLowerCase(expectedRepoName)
    IN  \/ n = e
        \/ startsWith(n, e \o <<"-">>)
        \/ startsWith(n, e \o <<"_">>)

findMatchingZip(release, expectedRepoName) ==
    LET zs == zipAssets(release)
    IN  find(zs, {i \in DOMAIN zs : matchesRepoName(zs[i], expectedRepoName)})

NewReleaseValidation(release) ==
    [tagName        |-> release.tag_name,
     hasMatchingZip |-> FALSE,
     zipAssetName   |-> <<>>,
     componentValid |-> FALSE,
     componentType  |-> "null",
     dependencies   |-> <<>>,
     errors         |-> <<>>,
     githubRelease  |-> <<>>]

\* validateRelease from its entry to the first await: the result and the
\* matched asset (<<>> when the function returns before the try block).
matchRelease(release, expectedRepoName, includeFull) ==
    LET r0 == [NewReleaseValidation(release) EXCEPT
                  !.githubRelease = IF includeFull THEN <<release>> ELSE <<>>]
        zs == zipAssets(release)
        mz == findMatchingZip(release, expectedRepoName)
    IN  IF Len(zs) = 0
        THEN [res |-> [r0 EXCEPT !.errors =
                          Append(@, Err("No ZIP assets found in release", <<>>))],
              zip |-> <<>>]
        ELSE IF mz = <<>>
        THEN [res |-> [r0 EXCEPT !.errors =
                          Append(@, Err("No ZIP file matching project name",
                                        [i \in 1..Len(zs) |-> zs[i].name]))],
              zip |-> <<>>]
        ELSE [res |-> [r0 EXCEPT !.hasMatchingZip = TRUE,
                                 !.zipAssetName = <<mz[1].name>>],
              zip |-> mz]

----------------------------------------------------------------------------
(* ComponentValidator                                                      *)
(* A directory entry is [name, kind, ok, children, content]: kind is       *)
(* "dir", "file" or "other" (what Dirent.isDirectory and Dirent.isFile     *)
(* both reject, such as a symbolic link), ok is FALSE for a directory      *)
(* readdir fails on, children is its listing in readdir order, content is  *)
(* what JSON.parse makes of a file's text: <<>> when it throws.            *)

Dot4dbase == <<".", "4", "d", "b", "a", "s", "e">>

Dot4dz == <<".", "4", "d", "z">>

Dot4DProject == <<".", "4", "D", "P", "r", "o", "j", "e", "c", "t">>

ProjectLower == <<"p", "r", "o", "j", "e", "c", "t">>

NameProject == <<"P", "r", "o", "j", "e", "c", "t">>

NameSources == <<"S", "o", "u", "r", "c", "e", "s">>

NameDependenciesJson ==
    <<"d","e","p","e","n","d","e","n","c","i","e","s",".","j","s","o","n">>

isDirectory(e) ==
    e.kind = "dir"

isFile(e) ==
    e.kind = "file"

\* the entry a path component resolves to inside a directory, if any
lookup(dir, name) ==
    IF dir = <<>> \/ ~isDirectory(dir[1]) \/ ~dir[1].ok
    THEN <<>>
    ELSE find(dir[1].children,
              {i \in DOMAIN dir[1].children : dir[1].children[i].name = name})

\* readFile(path) followed by JSON.parse: <<>> when either throws
readJson(file) ==
    IF file = <<>> \/ ~isFile(file[1]) THEN <<>> ELSE file[1].content

\* the content of a file whose text is the JSON literal null
JsonNull == <<"null">>

\* the value findDependencies hands back for what JSON.parse returned
jsValue(parsed) ==
    IF parsed = JsonNull THEN <<>> ELSE parsed

\* lines 116-119 with the two candidate paths in the opposite order
findDependencies_sourcesFirst(baseDir) ==
    LET p1 == readJson(lookup(lookup(lookup(<<baseDir>>, NameProject),
                                     NameSources), NameDependenciesJson))
        p2 == readJson(lookup(lookup(<<baseDir>>, NameSources),
                              NameDependenciesJson))
    IN  IF p2 # <<>> THEN jsValue(p2)
        ELSE IF p1 # <<>> THEN jsValue(p1)
        ELSE <<>>

findDependencies(baseDir) ==
    LET p1 == readJson(lookup(lookup(lookup(<<baseDir>>, NameProject),
                                     NameSources), NameDependenciesJson))
        p2 == readJson(lookup(lookup(<<baseDir>>, NameSources),
                              NameDependenciesJson))
    IN  IF p1 # <<>> THEN jsValue(p1)
        ELSE IF p2 # <<>> THEN jsValue(p2)
        ELSE <<>>

is4DBaseDir(e) ==
    isDirectory(e) /\ endsWith(toLowerCase(e.name), Dot4dbase)

is4DZFile(e) ==
    isFile(e) /\ endsWith(toLowerCase(e.name), Dot4dz)

isProjectFolder(e) ==
    isDirectory(e) /\ toLowerCase(e.name) = ProjectLower

is4DProjectFile(e) ==
    isFile(e) /\ endsWith(e.name, Dot4DProject)

Found(type, deps) ==
    [threw |-> FALSE, componentType |-> type, dependencies |-> deps]

\* findComponent(searchDir, entries), entries being searchDir's listing;
\* threw is TRUE when the readdir of the Project folder rejects.
findComponent(searchDir) ==
    LET entries       == searchDir.children
        fourDBase     == find(entries, {i \in DOMAIN entries : is4DBaseDir(entries[i])})
        fourDZ        == find(entries, {i \in DOMAIN entries : is4DZFile(entries[i])})
        projectFolder == find(entries, {i \in DOMAIN entries : isProjectFolder(entries[i])})
    IN  IF fourDBase # <<>>
        THEN Found("4Dbase", findDependencies(fourDBase[1]))
        ELSE IF fourDZ # <<>>
        THEN Found("4DZ", <<>>)
        ELSE IF projectFolder # <<>>
        THEN IF ~projectFolder[1].ok
             THEN [Found("null", <<>>) EXCEPT !.threw = TRUE]
             ELSE IF LET projectContents == projectFolder[1].children
                     IN  find(projectContents,
                              {i \in DOMAIN projectContents :
                                  is4DProjectFile(projectContents[i])}) # <<>>
                  THEN Found("Project", findDependencies(searchDir))
                  ELSE Found("null", <<>>)
        ELSE Found("null", <<>>)

\* line 37 without the files.length === 0 test
descends_ignoresFiles(extractedDir) ==
    LET directories == SelectSeq(extractedDir.children, isDirectory)
    IN  /\ Len(directories) = 1
        /\ ~endsWith(toLowerCase(directories[1].name), Dot4dbase)

\* whether validate looks inside a wrapper folder after the root search
descends(extractedDir) ==
    LET directories == SelectSeq(extractedDir.children, isDirectory)
        files       == SelectSeq(extractedDir.children, isFile)
    IN  /\ Len(directories) = 1
        /\ Len(files) = 0
        /\ ~endsWith(toLowerCase(directories[1].name), Dot4dbase)

wrapperOf(extractedDir) ==
    SelectSeq(extractedDir.children, isDirectory)[1]

ValidateFailed ==
    [valid |-> FALSE, componentType |-> "null", dependencies |-> <<>>,
     errors |-> <<Err("Failed to validate component", <<>>)>>]

validate(extractedDir, expectedName) ==
    IF ~extractedDir.ok THEN ValidateFailed
    ELSE
    LET atRoot == findComponent(extractedDir)
    IN  IF atRoot.threw THEN ValidateFailed
        ELSE IF atRoot.componentType = "null" /\ descends(extractedDir)
                /\ ~wrapperOf(extractedDir).ok
        THEN ValidateFailed
        ELSE
        LET res == IF atRoot.componentType = "null" /\ descends(extractedDir)
                   THEN findComponent(wrapperOf(extractedDir))
                   ELSE atRoot
        IN  IF res.threw THEN ValidateFailed
            ELSE [valid         |-> res.componentType # "null",
                  componentType |-> res.componentType,
                  dependencies  |-> res.dependencies,
                  errors        |-> IF res.componentType = "null"
                                    THEN <<Err("No valid 4D component found", <<>>)>>
                                    ELSE <<>>]

----------------------------------------------------------------------------
(* Inputs and environment of validateRepository                            *)

RepoPaths ==
    { <<"o", "/", "F", "o", "o">>,
      <<"F", "o", "o">>,
      <<"o", "/">>,
      <<"o", "/", "F", "o", "o", "/", "x">> }

TagNames == <<"v1", "v2", "v3", "v4">>

MissingTag == "v9"

ReleaseOptions ==
    {<<>>, <<"*">>, <<MissingTag>>} \cup {<<TagNames[i]>> : i \in 1..MaxReleases}

Asset(name) ==
    [name |-> name]

AssetListPool ==
    { <<Asset(<<"n", "o", "t", "e", "s", ".", "t", "x", "t">>)>>,
      <<Asset(<<"B", "a", "r", ".", "z", "i", "p">>)>>,
      <<Asset(<<"F", "o", "o", ".", "z", "i", "p">>)>>,
      <<Asset(<<"B", "a", "r", ".", "z", "i", "p">>),
        Asset(<<"f", "o", "o", "-", "1", ".", "Z", "I", "P">>)>> }

ReleaseLists ==
    UNION { { [i \in 1..n |-> [tag_name |-> TagNames[i], assets |-> as[i]]] :
                as \in [1..n -> AssetListPool] } : n \in 0..MaxReleases }

File(name, content) ==
    [name |-> name, kind |-> "file", ok |-> TRUE, children |-> <<>>,
     content |-> content]

Dir(name, children) ==
    [name |-> name, kind |-> "dir", ok |-> TRUE, children |-> children,
     content |-> <<>>]

Other(name) ==
    [name |-> name, kind |-> "other", ok |-> TRUE, children |-> <<>>,
     content |-> <<>>]

Unreadable(name) ==
    [name |-> name, kind |-> "dir", ok |-> FALSE, children |-> <<>>,
     content |-> <<>>]

NameExtracted == <<"e", "x", "t", "r", "a", "c", "t", "e", "d">>

NameReadme == <<"R", "E", "A", "D", "M", "E", ".", "m", "d">>

NameWrapper == <<"r", "e", "p", "o", "-", "v", "1">>

DepsBar == <<"Bar">>

DependenciesFile(content) ==
    Dir(NameProject, <<Dir(NameSources, <<File(NameDependenciesJson, content)>>)>>)

\* what unzip may leave in the extraction directory
ExtractedTrees ==
    { Dir(NameExtracted,
          <<Dir(<<"W", ".", "4", "d", "b", "a", "s", "e">>,
                <<DependenciesFile(DepsBar)>>)>>),
      Dir(NameExtracted, <<File(NameReadme, <<>>)>>),
      Dir(NameExtracted,
          <<Dir(NameWrapper, <<File(<<"W", ".", "4", "D", "Z">>, <<>>)>>)>>),
      Unreadable(NameExtracted) }

HttpStatuses == {"200", "404", "403", "500"}

HttpError(what, status) ==
    CASE status = "404" -> Err("Repository not found", <<>>)
      [] status = "403" -> Err("API rate limit exceeded", <<>>)
      [] OTHER          -> Err(what, <<status>>)

\* the values Date.now() and Math.random() may return
ClockValues == {1}

RandTokens == {"a", "b"}

Call(op, tag, headers, ok) ==
    [op |-> op, tag |-> tag, headers |-> headers, ok |-> ok]

NewValidationResult(path) ==
    [repository  |-> path,
     valid       |-> FALSE,
     hasReleases |-> FALSE,
     releases    |-> <<>>,
     errors      |-> <<>>,
     githubInfo  |-> <<>>]

Init ==
    /\ pc = "start"
    /\ repoPath \in RepoPaths
    /\ optRelease \in ReleaseOptions
    /\ optFull \in BOOLEAN
    /\ token \in {<<>>, <<"secret">>}
    /\ repo = <<>>
    /\ releases = <<>>
    /\ releasesToCheck = <<>>
    /\ idx = 1
    /\ result = NewValidationResult(repoPath)
    /\ rr = <<>>
    /\ matchingZip = <<>>
    /\ tempDir = <<>>
    /\ disk = {}
    /\ extracted = <<>>
    /\ calls = <<>>
    /\ input = <<>>
    /\ output = <<>>

----------------------------------------------------------------------------
(* DependencyValidator.validateRepository                                  *)

Fixed == <<repoPath, optRelease, optFull, token>>

ReleaseLocals == <<rr, matchingZip, tempDir, disk, extracted>>

FnVars == <<input, output>>

\* the catch block of validateRepository
Throw(err) ==
    /\ result' = [result EXCEPT !.errors = Append(@, err)]
    /\ pc' = "done"

\* lines 113-131: parse the path, up to the first network call
Start ==
    /\ pc = "start"
    /\ LET parsed == parseRepoPath(repoPath)
       IN  IF parsed = <<>>
           THEN /\ Throw(Err("Invalid repository path", repoPath))
                /\ repo' = repo
           ELSE /\ repo' = parsed[1].repo
                /\ pc' = IF optFull THEN "getRepository" ELSE "getReleases"
                /\ result' = result
    /\ UNCHANGED <<Fixed, releases, releasesToCheck, idx, ReleaseLocals,
                   calls, FnVars>>

\* lines 126-129 and GitHubClient.getRepository
GetRepository ==
    /\ pc = "getRepository"
    /\ \E status \in HttpStatuses :
          /\ calls' = Append(calls, Call("getRepository", "", getHeaders,
                                         status = "200"))
          /\ IF status = "200"
             THEN /\ result' = [result EXCEPT !.githubInfo = <<"info">>]
                  /\ pc' = "getReleases"
             ELSE Throw(HttpError("Failed to fetch repository", status))
    /\ UNCHANGED <<Fixed, repo, releases, releasesToCheck, idx,
                   ReleaseLocals, FnVars>>

tagsOf(rs) ==
    [i \in 1..Len(rs) |-> rs[i].tag_name]

\* lines 143-163 falling back to every release when the tag is unknown
selectReleases_fallbackToAll(rs, release) ==
    IF release = <<"*">> THEN <<rs>>
    ELSE IF release # <<>>
    THEN LET specificRelease == find(rs, {i \in DOMAIN rs : rs[i].tag_name = release[1]})
         IN  IF specificRelease = <<>> THEN <<rs>> ELSE <<specificRelease>>
    ELSE <<rs>>

\* lines 146-148 keeping only the newest release for '*'
selectReleases_starNewestOnly(rs, release) ==
    IF release = <<"*">> THEN <<SubSeq(rs, 1, 1)>>
    ELSE IF release # <<>>
    THEN LET specificRelease == find(rs, {i \in DOMAIN rs : rs[i].tag_name = release[1]})
         IN  IF specificRelease = <<>> THEN <<>> ELSE <<specificRelease>>
    ELSE <<rs>>

\* lines 143-163: the releases to check, <<>> standing for "tag not found"
selectReleases(rs, release) ==
    IF release = <<"*">> THEN <<rs>>
    ELSE IF release # <<>>
    THEN LET specificRelease == find(rs, {i \in DOMAIN rs : rs[i].tag_name = release[1]})
         IN  IF specificRelease = <<>> THEN <<>> ELSE <<specificRelease>>
    ELSE <<rs>>

\* lines 135-140 setting hasReleases before the emptiness test
afterListing_alwaysHasReleases(res, listed) ==
    IF Len(listed) = 0
    THEN [res EXCEPT !.hasReleases = TRUE,
                     !.errors = Append(@, Err("No releases found", <<>>))]
    ELSE [res EXCEPT !.hasReleases = TRUE]

\* lines 135-140: the result once the listing has returned
afterListing(res, listed) ==
    IF Len(listed) = 0
    THEN [res EXCEPT !.errors = Append(@, Err("No releases found", <<>>))]
    ELSE [res EXCEPT !.hasReleases = TRUE]

\* lines 133-163 and GitHubClient.getReleases
GetReleases ==
    /\ pc = "getReleases"
    /\ \E status \in HttpStatuses, listed \in ReleaseLists :
          /\ status # "200" => listed = <<>>
          /\ calls' = Append(calls, Call("getReleases", "", getHeaders,
                                         status = "200"))
          /\ IF status # "200"
             THEN /\ Throw(HttpError("Failed to fetch releases", status))
                  /\ UNCHANGED <<releases, releasesToCheck>>
             ELSE /\ releases' = listed
                  /\ IF Len(listed) = 0
                     THEN /\ result' = afterListing(result, listed)
                          /\ pc' = "done"
                          /\ UNCHANGED releasesToCheck
                     ELSE LET sel == selectReleases(listed, optRelease)
                          IN  IF sel = <<>>
                              THEN /\ result' = [afterListing(result, listed)
                                          EXCEPT !.errors = Append(@,
                                              Err("Release not found",
                                                  <<optRelease[1]>> \o tagsOf(listed)))]
                                   /\ pc' = "done"
                                   /\ UNCHANGED releasesToCheck
                              ELSE /\ result' = afterListing(result, listed)
                                   /\ releasesToCheck' = sel[1]
                                   /\ pc' = "loop"
    /\ idx' = 1
    /\ UNCHANGED <<Fixed, repo, ReleaseLocals, FnVars>>

\* lines 165-171: next iteration of the for-loop, skipping a release
\* without ZIP assets
LoopNext ==
    /\ pc = "loop"
    /\ IF idx > Len(releasesToCheck)
       THEN /\ pc' = "summary"
            /\ UNCHANGED <<idx, calls>>
       ELSE LET release == releasesToCheck[idx]
                hasZip  == \E i \in DOMAIN release.assets : isZipAsset(release.assets[i])
            IN  IF ~hasZip
                THEN /\ idx' = idx + 1
                     /\ pc' = "loop"
                     /\ calls' = Append(calls, Call("skip", release.tag_name, {}, TRUE))
                ELSE /\ pc' = "match"
                     /\ UNCHANGED <<idx, calls>>
    /\ UNCHANGED <<Fixed, repo, releases, releasesToCheck, result,
                   ReleaseLocals, FnVars>>

\* lines 201-247: validateRelease up to the try block
MatchAsset ==
    /\ pc = "match"
    /\ LET release == releasesToCheck[idx]
           m       == matchRelease(release, repo, optFull)
       IN  /\ rr' = m.res
           /\ matchingZip' = m.zip
           /\ pc' = IF m.zip = <<>> THEN "push" ELSE "createTempDir"
           /\ calls' = Append(calls, Call("match", release.tag_name, {}, m.zip # <<>>))
    /\ tempDir' = <<>>
    /\ UNCHANGED <<Fixed, repo, releases, releasesToCheck, idx, result,
                   disk, extracted, FnVars>>

\* lines 271-272 with a catch block that records nothing
ReleaseCatch_silent(cause) ==
    rr' = rr

\* the catch block of validateRelease
ReleaseCatch(cause) ==
    rr' = [rr EXCEPT !.errors =
              Append(@, Err("Failed to validate ZIP", <<cause>>))]

\* ZipHandler.createTempDir: the directory name made of Date.now() and
\* Math.random()
createTempDir(time, random) ==
    <<"validate", time, random>>

\* line 249 and ZipHandler.createTempDir; when mkdir rejects, tempDir is
\* still null and the finally block removes nothing
CreateTempDir ==
    /\ pc = "createTempDir"
    /\ LET tag == releasesToCheck[idx].tag_name
       IN  \/ \E time \in ClockValues, random \in RandTokens :
                 /\ tempDir' = <<createTempDir(time, random)>>
                 /\ disk' = disk \cup {createTempDir(time, random)}
                 /\ calls' = Append(calls, Call("mkdir", tag, {}, TRUE))
                 /\ pc' = "download"
                 /\ rr' = rr
           \/ /\ ReleaseCatch("mkdir")
              /\ calls' = Append(calls, Call("mkdir", tag, {}, FALSE))
              /\ pc' = "push"
              /\ UNCHANGED <<tempDir, disk>>
    /\ UNCHANGED <<Fixed, repo, releases, releasesToCheck, idx, result,
                   matchingZip, extracted, FnVars>>

\* line 253 with the rejection of downloadAsset caught on the spot, so
\* that extraction follows a download that failed
DownloadAsset_continuesOnFailure ==
    /\ pc = "download"
    /\ \E ok \in BOOLEAN :
          /\ calls' = Append(calls, Call("downloadAsset",
                                         releasesToCheck[idx].tag_name,
                                         downloadAssetHeaders, ok))
          /\ pc' = "extract"
          /\ IF ok
             THEN rr' = rr
             ELSE ReleaseCatch("Failed to download asset")
    /\ UNCHANGED <<Fixed, repo, releases, releasesToCheck, idx, result,
                   matchingZip, tempDir, disk, extracted, FnVars>>

\* line 253 and GitHubClient.downloadAsset
DownloadAsset ==
    /\ pc = "download"
    /\ \E ok \in BOOLEAN :
          /\ calls' = Append(calls, Call("downloadAsset",
                                         releasesToCheck[idx].tag_name,
                                         downloadAssetHeaders, ok))
          /\ IF ok
             THEN /\ pc' = "extract"
                  /\ rr' = rr
             ELSE /\ ReleaseCatch("Failed to download asset")
                  /\ pc' = "cleanup"
    /\ UNCHANGED <<Fixed, repo, releases, releasesToCheck, idx, result,
                   matchingZip, tempDir, disk, extracted, FnVars>>

\* line 257 and ZipHandler.extractZip
ExtractZip ==
    /\ pc = "extract"
    /\ LET tag == releasesToCheck[idx].tag_name
       IN  \/ \E tree \in ExtractedTrees :
                 /\ extracted' = <<tree>>
                 /\ calls' = Append(calls, Call("unzip", tag, {}, TRUE))
                 /\ pc' = "validate"
                 /\ rr' = rr
           \/ /\ ReleaseCatch("unzip failed")
              /\ calls' = Append(calls, Call("unzip", tag, {}, FALSE))
              /\ pc' = "cleanup"
              /\ extracted' = extracted
    /\ UNCHANGED <<Fixed, repo, releases, releasesToCheck, idx, result,
                   matchingZip, tempDir, disk, FnVars>>

\* lines 260-269 and ComponentValidator.validate
ValidateComponent ==
    /\ pc = "validate"
    /\ LET componentResult == validate(extracted[1], repo)
       IN  /\ rr' = [rr EXCEPT
                        !.componentValid = componentResult.valid,
                        !.componentType  = componentResult.componentType,
                        !.dependencies   = componentResult.dependencies,
                        !.errors         = @ \o componentResult.errors]
           /\ calls' = Append(calls, Call("validate",
                                          releasesToCheck[idx].tag_name, {},
                                          componentResult.valid))
    /\ pc' = "cleanup"
    /\ UNCHANGED <<Fixed, repo, releases, releasesToCheck, idx, result,
                   matchingZip, tempDir, disk, extracted, FnVars>>

\* ZipHandler.cleanup removing nothing
cleanup_keepsDir(dirs, dir, removed) ==
    dirs

\* ZipHandler.cleanup: what is left on disk when rm resolves (removed) and
\* when it rejects, which the catch block ignores
cleanup(dirs, dir, removed) ==
    IF removed THEN dirs \ {dir} ELSE dirs

\* lines 273-277: the finally block, tempDir being set
Cleanup ==
    /\ pc = "cleanup"
    /\ \E removed \in BOOLEAN :
          /\ disk' = cleanup(disk, tempDir[1], removed)
          /\ calls' = Append(calls, Call("rm", releasesToCheck[idx].tag_name,
                                         {}, removed))
    /\ extracted' = <<>>
    /\ pc' = "push"
    /\ UNCHANGED <<Fixed, repo, releases, releasesToCheck, idx, result, rr,
                   matchingZip, tempDir, FnVars>>

\* line 177 breaking on the first valid component instead
shouldStop_onValidComponent(release, releaseResult) ==
    release = <<>> /\ releaseResult.componentValid

\* line 177 breaking as soon as a release has an error
shouldStop_onError(release, releaseResult) ==
    \/ release = <<>> /\ releaseResult.hasMatchingZip
    \/ releaseResult.errors # <<>>

\* line 177: the default-mode break
shouldStop(release, releaseResult) ==
    release = <<>> /\ releaseResult.hasMatchingZip

\* lines 174-180: record the release and apply the default-mode break
PushResult ==
    /\ pc = "push"
    /\ result' = [result EXCEPT !.releases = Append(@, rr)]
    /\ IF shouldStop(optRelease, rr)
       THEN /\ pc' = "summary"
            /\ idx' = idx
       ELSE /\ pc' = "loop"
            /\ idx' = idx + 1
    /\ UNCHANGED <<Fixed, repo, releases, releasesToCheck, ReleaseLocals,
                   calls, FnVars>>

ErrNoZipReleases ==
    Err("No releases found with ZIP assets", <<>>)

ErrNoValidComponent ==
    Err("No release contains a valid 4D component with matching ZIP name", <<>>)

\* line 184 testing the wrong flag of the recorded releases
isValid_anyMatchingZip(recorded) ==
    \E i \in DOMAIN recorded : recorded[i].hasMatchingZip

\* line 184
isValid(recorded) ==
    \E i \in DOMAIN recorded : recorded[i].componentValid

\* lines 186-192 telling the two cases by the matched assets
summaryError_byMatchingZip(recorded) ==
    IF ~\E i \in DOMAIN recorded : recorded[i].hasMatchingZip
    THEN ErrNoZipReleases ELSE ErrNoValidComponent

\* lines 186-192: the summary error of an invalid repository
summaryError(recorded) ==
    IF Len(recorded) = 0 THEN ErrNoZipReleases ELSE ErrNoValidComponent

\* lines 183-192
Summary ==
    /\ pc = "summary"
    /\ result' = [result EXCEPT
           !.valid  = isValid(result.releases),
           !.errors = IF isValid(result.releases) THEN @
                      ELSE Append(@, summaryError(result.releases))]
    /\ pc' = "done"
    /\ UNCHANGED <<Fixed, repo, releases, releasesToCheck, idx,
                   ReleaseLocals, calls, FnVars>>

Next ==
    \/ Start
    \/ GetRepository
    \/ GetReleases
    \/ LoopNext
    \/ MatchAsset
    \/ CreateTempDir
    \/ DownloadAsset
    \/ ExtractZip
    \/ ValidateComponent
    \/ Cleanup
    \/ PushResult
    \/ Summary

Spec ==
    Init /\ [][Next]_vars

----------------------------------------------------------------------------
(* Asset matching on its own: validateRelease applied to one release       *)

AssetNamePool ==
    { <<"F", "o", "o", ".", "z", "i", "p">>,
      <<"f", "o", "o", ".", "Z", "I", "P">>,
      <<"F", "o", "o", "-", "1", ".", "z", "i", "p">>,
      <<"F", "O", "O", "_", "2", ".", "Z", "i", "p">>,
      <<"F", "o", "o", "-", "w", ".", "t", "x", "t">>,
      <<"F", "o", "o">>,
      <<"F", "o", "o", "z", "i", "p">>,
      <<"F", "o", "o", ".", "z", "i", "p", ".", "t", "x", "t">>,
      <<"F", "o", "o", "b", ".", "z", "i", "p">>,
      <<"x", "F", "o", "o", ".", "z", "i", "p">>,
      <<"B", "a", "r", ".", "z", "i", "p">>,
      <<".", "z", "i", "p">> }

RepoNamePool ==
    { <<"F", "o", "o">>, <<"f", "O", "o">> }

AssetLists ==
    UNION { [1..n -> {Asset(nm) : nm \in AssetNamePool}] : n \in 0..MaxAssets }

\* the variables of validateRepository while a single function is applied
Idle ==
    /\ repoPath = <<>>
    /\ optRelease = <<>>
    /\ optFull = FALSE
    /\ token = <<>>
    /\ repo = <<>>
    /\ releases = <<>>
    /\ releasesToCheck = <<>>
    /\ idx = 1
    /\ result = NewValidationResult(<<>>)
    /\ rr = <<>>
    /\ matchingZip = <<>>
    /\ tempDir = <<>>
    /\ disk = {}
    /\ extracted = <<>>
    /\ calls = <<>>

IdleVars ==
    <<repoPath, optRelease, optFull, token, repo, releases, releasesToCheck,
      idx, result, rr, matchingZip, tempDir, disk, extracted, calls>>

InitMatch ==
    /\ Idle
    /\ pc = "call"
    /\ input \in [release : {[tag_name |-> TagNames[1], assets |-> as] :
                                as \in AssetLists},
                  expectedRepoName : RepoNamePool]
    /\ output = <<>>

ApplyMatch ==
    /\ pc = "call"
    /\ output' = <<matchRelease(input.release, input.expectedRepoName, FALSE)>>
    /\ pc' = "returned"
    /\ UNCHANGED <<IdleVars, input>>

NextMatch ==
    ApplyMatch

SpecMatch ==
    InitMatch /\ [][NextMatch]_vars

----------------------------------------------------------------------------
(* Classification on its own: ComponentValidator applied to one tree       *)

Name4dbase == <<"W", ".", "4", "d", "b", "a", "s", "e">>

Name4DZ == <<"W", ".", "4", "D", "Z">>

Name4DProject == <<"A", "p", "p", ".", "4", "D", "P", "r", "o", "j", "e", "c", "t">>

ProjectWithFile ==
    Dir(NameProject, <<File(Name4DProject, <<>>)>>)

\* entries without a wrapper folder among them
LeafEntries ==
    { Dir(Name4dbase, <<DependenciesFile(DepsBar)>>),
      File(<<"x", ".", "4", "D", "B", "a", "s", "e">>, <<>>),
      File(Name4DZ, <<>>),
      Dir(<<"d", ".", "4", "d", "z">>, <<>>),
      ProjectWithFile,
      Dir(ProjectLower, <<File(<<"a", ".", "4", "d", "p", "r", "o", "j", "e", "c", "t">>, <<>>)>>),
      File(NameReadme, <<>>),
      Other(<<"l", "i", "n", "k">>),
      Unreadable(<<"l", "o", "c", "k", "e", "d">>) }

distinctNames(listing) ==
    \A i, j \in 1..Len(listing) : listing[i].name = listing[j].name => i = j

listings(pool, n) ==
    { l \in UNION { [1..k -> pool] : k \in 0..n } : distinctNames(l) }

\* wrapper folders one level deep, and two levels deep
Wrappers1 ==
    { Dir(NameWrapper, l) : l \in listings(LeafEntries, 1) }
        \cup { Dir(NameWrapper, <<File(Name4DZ, <<>>), File(NameReadme, <<>>)>>),
               Unreadable(NameWrapper) }

Wrappers2 ==
    { Dir(<<"o", "u", "t", "e", "r">>, <<w>>) :
        w \in { Dir(NameWrapper, <<File(Name4DZ, <<>>)>>),
                Dir(NameWrapper, <<ProjectWithFile>>) } }

DepsBaz == <<"Baz">>

DepsQux == <<"Qux">>

\* what may stand at a candidate manifest path: nothing at all, the folder
\* without the file, a directory of that name, or a file whose text fails
\* to parse, is the literal null, or parses to a manifest
ManifestStates ==
    {"no folder", "no file", "directory", "unparsable", "null", "manifest"}

\* the Sources folder of a candidate path, as a list of zero or one entry
SourcesFolder(state, manifest) ==
    CASE state = "no folder"  -> <<>>
      [] state = "no file"    -> <<Dir(NameSources, <<>>)>>
      [] state = "directory"  ->
            <<Dir(NameSources, <<Dir(NameDependenciesJson, <<>>)>>)>>
      [] state = "unparsable" ->
            <<Dir(NameSources, <<File(NameDependenciesJson, <<>>)>>)>>
      [] state = "null"       ->
            <<Dir(NameSources, <<File(NameDependenciesJson, JsonNull)>>)>>
      [] OTHER                ->
            <<Dir(NameSources, <<File(NameDependenciesJson, manifest)>>)>>

\* the content of a component folder, given the states of its two
\* candidate paths; a Project folder is there when it has to hold the
\* project file or the first candidate
ComponentContent(first, second, withProjectFile) ==
    (IF withProjectFile \/ first # "no folder"
     THEN <<Dir(NameProject,
                (IF withProjectFile THEN <<File(Name4DProject, <<>>)>> ELSE <<>>)
                    \o SourcesFolder(first, DepsBar))>>
     ELSE <<>>)
        \o SourcesFolder(second, DepsBaz)

\* trees of the 4Dbase shape, whose root may hold a manifest of its own
\* beside the .4dbase folder, and trees of the Project shape
ManifestTrees ==
    { Dir(NameExtracted,
          <<Dir(Name4dbase, ComponentContent(first, second, FALSE))>>
              \o SourcesFolder(beside, DepsQux)) :
        first \in ManifestStates, second \in ManifestStates,
        beside \in {"no folder", "manifest"} }
    \cup
    { Dir(NameExtracted, ComponentContent(first, second, TRUE)) :
        first \in ManifestStates, second \in ManifestStates }

TreePool ==
    { Dir(NameExtracted, l) :
        l \in listings(LeafEntries \cup Wrappers1 \cup Wrappers2, MaxEntries) }
        \cup { Unreadable(NameExtracted) }
        \cup ManifestTrees

InitClassify ==
    /\ Idle
    /\ pc = "call"
    /\ input \in TreePool
    /\ output = <<>>

\* output is what findComponent makes of the root listing and what
\* validate returns
ApplyClassify ==
    /\ pc = "call"
    /\ output' = [atRoot   |-> findComponent(input),
                  validate |-> validate(input, <<"F", "o", "o">>)]
    /\ pc' = "returned"
    /\ UNCHANGED <<IdleVars, input>>

NextClassify ==
    ApplyClassify

SpecClassify ==
    InitClassify /\ [][NextClassify]_vars

----------------------------------------------------------------------------
(* Properties of validateRepository, checked under Spec                    *)

Returned == pc = "done"

\* the release listing came back (with or without releases)
Listed ==
    \E k \in 1..Len(calls) : calls[k].op = "getReleases" /\ calls[k].ok

\* the for-loop was entered and has ended
LoopEnded ==
    Returned /\ releasesToCheck # <<>>

InLoop ==
    pc \in {"loop", "match", "createTempDir", "download", "extract",
            "validate", "cleanup", "push", "summary"}

PositionOf(tag) ==
    CHOOSE i \in 1..Len(releases) : releases[i].tag_name = tag

recordedTags ==
    [i \in 1..Len(result.releases) |-> result.releases[i].tagName]

hasZipAsset(release) ==
    \E i \in 1..Len(release.assets) : isZipAsset(release.assets[i])

\* operations performed on behalf of one release
ReleaseOps ==
    {"skip", "match", "mkdir", "downloadAsset", "unzip", "validate", "rm"}

\* C1: at every return of validateRepository, result.valid is true iff
\* some recorded release has a non-null componentType.
C1_ValidIffComponentType ==
    Returned =>
        (result.valid <=>
            \E i \in 1..Len(result.releases) :
                result.releases[i].componentType # "null")

C1_Witness ==
    /\ Returned
    /\ result.valid
    /\ Len(result.releases) = 2
    /\ result.releases[1].componentType = "null"
    /\ result.releases[1].hasMatchingZip
    /\ result.releases[2].componentType = "4DZ"

PipelineReturned ==
    pc = "push" /\ tempDir # <<>>

\* C3 as stated: when the per-release pipeline returns, the scratch
\* directory it allocated no longer exists.
C3_ScratchGone ==
    PipelineReturned => tempDir[1] \notin disk

\* C3 amended: when the per-release pipeline returns, removal of the
\* scratch directory it allocated was the last thing it did, on success
\* and on failure alike, and the directory no longer exists unless that
\* removal itself failed.
C3_CleanupAttempted ==
    PipelineReturned =>
        LET last == calls[Len(calls)]
        IN  /\ last.op = "rm"
            /\ last.tag = rr.tagName
            /\ last.ok => tempDir[1] \notin disk

C3_Witness ==
    /\ PipelineReturned
    /\ tempDir[1] \notin disk
    /\ calls[Len(calls)].ok
    /\ rr.errors # <<>>
    /\ rr.errors[1].kind = "Failed to validate ZIP"

errorsOf(tag) ==
    IF \E i \in 1..Len(result.releases) : result.releases[i].tagName = tag
    THEN result.releases[CHOOSE i \in 1..Len(result.releases) :
                             result.releases[i].tagName = tag].errors
    ELSE IF rr # <<>> /\ rr.tagName = tag THEN rr.errors
    ELSE <<>>

hasErrorOfKind(errors, kinds) ==
    \E i \in 1..Len(errors) : errors[i].kind \in kinds

\* C4: a failure of scratch allocation, download, extraction or
\* classification is recorded in the error list of its release; no error
\* reaches the repository-level list while the loop runs; and in
\* all-releases mode the recorded releases are exactly the listed releases
\* that have a ZIP asset, in order, whatever failed.
C4_FailureContained ==
    /\ InLoop => result.errors = <<>>
    /\ \A k \in 1..Len(calls) :
          /\ (calls[k].op \in {"mkdir", "downloadAsset", "unzip"} /\ ~calls[k].ok)
                => hasErrorOfKind(errorsOf(calls[k].tag), {"Failed to validate ZIP"})
          /\ (calls[k].op = "validate" /\ ~calls[k].ok)
                => hasErrorOfKind(errorsOf(calls[k].tag),
                                  {"Failed to validate component",
                                   "No valid 4D component found"})
    /\ (LoopEnded /\ optRelease = <<"*">>) =>
          recordedTags = tagsOf(SelectSeq(releases, hasZipAsset))

C4_Witness ==
    /\ LoopEnded
    /\ optRelease = <<"*">>
    /\ Len(result.releases) = 2
    /\ hasErrorOfKind(result.releases[1].errors, {"Failed to validate ZIP"})
    /\ result.releases[2].componentValid

SpecificTag ==
    optRelease # <<>> /\ optRelease # <<"*">>

C7_MatchingArchiveDistinction ==
    (LoopEnded /\ ~result.valid) =>
        /\ Len(result.errors) = 1
        /\ result.errors[1] \in {ErrNoZipReleases, ErrNoValidComponent}
        /\ result.errors[1] = ErrNoZipReleases <=>
              \A i \in 1..Len(releasesToCheck) :
                  findMatchingZip(releasesToCheck[i], repo) = <<>>

\* C7 amended: an invalid repository gets exactly one summary error, which
\* tells "no inspected release had any ZIP asset, so none was recorded"
\* from "some release had a ZIP asset, matching or not, and was recorded,
\* but none held a valid component".
C7_ZipAssetDistinction ==
    (LoopEnded /\ ~result.valid) =>
        /\ Len(result.errors) = 1
        /\ result.errors[1] \in {ErrNoZipReleases, ErrNoValidComponent}
        /\ result.errors[1] = ErrNoZipReleases <=>
              \A i \in 1..Len(releasesToCheck) : ~hasZipAsset(releasesToCheck[i])
        /\ result.errors[1] = ErrNoZipReleases <=> result.releases = <<>>

C7_Witness ==
    /\ LoopEnded
    /\ ~result.valid
    /\ result.errors = <<ErrNoValidComponent>>
    /\ \A i \in 1..Len(result.releases) : ~result.releases[i].hasMatchingZip

\* C8: hasReleases is true iff the listing returned a non-empty list; an
\* empty listing ends the validation with hasReleases = valid = false, the
\* error "No releases found", and no release inspected, in every mode.
C8_HasReleases ==
    /\ result.hasReleases <=> (Listed /\ Len(releases) > 0)
    /\ (Listed /\ releases = <<>>) =>
          /\ Returned
          /\ ~result.valid
          /\ result.errors = <<Err("No releases found", <<>>)>>
          /\ result.releases = <<>>
          /\ \A k \in 1..Len(calls) : calls[k].op \notin ReleaseOps

C8_Witness ==
    /\ Listed
    /\ releases = <<>>
    /\ SpecificTag
    /\ Returned
    /\ ~result.hasReleases

----------------------------------------------------------------------------
(* Properties of asset matching, checked under SpecMatch                   *)

\* name ends with ".zip" in any letter case and the rest of it, compared
\* without regard to case, is the repository name or starts with the
\* repository name followed by "-" or "_"
isMatchingArchive(name, repoName) ==
    /\ Len(name) >= 4
    /\ toLowerCase(SubSeq(name, Len(name) - 3, Len(name))) = <<".", "z", "i", "p">>
    /\ LET stem == toLowerCase(SubSeq(name, 1, Len(name) - 4))
           r    == toLowerCase(repoName)
       IN  \/ stem = r
           \/ /\ Len(stem) > Len(r)
              /\ SubSeq(stem, 1, Len(r)) = r
              /\ stem[Len(r) + 1] \in {"-", "_"}

\* C6: the matched asset is the first asset, in list order, that is a
\* matching archive; hasMatchingZip is true and zipAssetName is its name
\* exactly when there is one.
C6_FirstMatchingArchive ==
    pc = "returned" =>
        LET assets == input.release.assets
            good   == { i \in 1..Len(assets) :
                          isMatchingArchive(assets[i].name, input.expectedRepoName) }
            out    == output[1]
        IN  IF good # {}
            THEN LET first == CHOOSE i \in good : \A j \in good : i <= j
                 IN  /\ out.res.hasMatchingZip
                     /\ out.res.zipAssetName = <<assets[first].name>>
                     /\ out.zip = <<assets[first]>>
            ELSE /\ ~out.res.hasMatchingZip
                 /\ out.res.zipAssetName = <<>>
                 /\ out.zip = <<>>

C6_Witness ==
    /\ pc = "returned"
    /\ input.expectedRepoName = <<"f", "O", "o">>
    /\ Len(input.release.assets) = 2
    /\ input.release.assets[1].name = <<"F", "o", "o", "-", "w", ".", "t", "x", "t">>
    /\ input.release.assets[2].name = <<"F", "O", "O", "_", "2", ".", "Z", "i", "p">>
    /\ output[1].res.hasMatchingZip
    /\ output[1].res.zipAssetName = <<input.release.assets[2].name>>

----------------------------------------------------------------------------
(* Properties of classification, checked under SpecClassify                *)

hasSuffixIgnoringCase(name, suffix) ==
    /\ Len(name) >= Len(suffix)
    /\ toLowerCase(SubSeq(name, Len(name) - Len(suffix) + 1, Len(name)))
          = toLowerCase(suffix)

\* the kind the priority list gives to one directory listing
kindByPriority(entries) ==
    IF \E i \in 1..Len(entries) :
          /\ entries[i].kind = "dir"
          /\ hasSuffixIgnoringCase(entries[i].name, Dot4dbase)
    THEN "4Dbase"
    ELSE IF \E i \in 1..Len(entries) :
          /\ entries[i].kind = "file"
          /\ hasSuffixIgnoringCase(entries[i].name, Dot4dz)
    THEN "4DZ"
    ELSE IF \E i \in 1..Len(entries) :
          /\ entries[i].kind = "dir"
          /\ toLowerCase(entries[i].name) = toLowerCase(NameProject)
          /\ \E j \in 1..Len(entries[i].children) :
                /\ entries[i].children[j].kind = "file"
                /\ endsWith(entries[i].children[j].name, Dot4DProject)
    THEN "Project"
    ELSE "null"

\* C9: one directory level is classified by the fixed priority 4Dbase,
\* 4DZ, Project, none: a .4dbase subdirectory wins, else a .4dz file (with
\* null dependencies), else a subdirectory named Project that directly
\* contains a .4DProject file, else no kind.
C9_PriorityOrder ==
    (pc = "returned" /\ input.ok) =>
        /\ output.atRoot.componentType = kindByPriority(input.children)
        /\ output.atRoot.componentType = "4DZ" => output.atRoot.dependencies = <<>>

noShapeAtRoot ==
    /\ pc = "returned"
    /\ input.ok
    /\ ~output.atRoot.threw
    /\ output.atRoot.componentType = "null"

\* what one more round of shape checks finds inside a wrapper folder
insideWrapper(wrapper) ==
    IF wrapper.ok THEN findComponent(wrapper).componentType ELSE "null"

\* C10 as stated: with no shape at the root, the classifier descends, one
\* level and once, iff the root has exactly one entry, a directory whose
\* name does not end with .4dbase; any other root yields null and an
\* error.
C10_SingleEntryWrapper ==
    noShapeAtRoot =>
        LET entries == input.children
        IN  /\ IF /\ Len(entries) = 1
                  /\ entries[1].kind = "dir"
                  /\ ~hasSuffixIgnoringCase(entries[1].name, Dot4dbase)
               THEN output.validate.componentType = insideWrapper(entries[1])
               ELSE output.validate.componentType = "null"
            /\ output.validate.componentType = "null"
                  => output.validate.errors # <<>>

\* C10 amended: with no shape at the root, the classifier descends, one
\* level and once, iff the root's entries include exactly one directory
\* and no regular file (entries that are neither are not counted) and that
\* directory's name does not end with .4dbase; any other root, and a
\* component two wrapper levels deep, yields null and an error.
C10_SingleDirectoryNoFiles ==
    noShapeAtRoot =>
        LET entries == input.children
            dirs    == { i \in 1..Len(entries) : entries[i].kind = "dir" }
            files   == { i \in 1..Len(entries) : entries[i].kind = "file" }
        IN  /\ IF /\ Cardinality(dirs) = 1
                  /\ files = {}
                  /\ \A i \in dirs :
                        ~hasSuffixIgnoringCase(entries[i].name, Dot4dbase)
               THEN \A i \in dirs :
                        output.validate.componentType = insideWrapper(entries[i])
               ELSE output.validate.componentType = "null"
            /\ \A i \in dirs :
                  \A j \in 1..Len(entries[i].children) :
                      (kindByPriority(entries[i].children) = "null"
                         /\ kindByPriority(entries[i].children[j].children) # "null")
                      => output.validate.componentType = "null"
            /\ output.validate.componentType = "null"
                  => output.validate.errors # <<>>

C10_Witness ==
    /\ noShapeAtRoot
    /\ Len(input.children) = 2
    /\ \E i \in 1..2 : input.children[i].kind = "other"
    /\ output.validate.componentType = "4DZ"

\* the entry a relative path leads to from a directory, if any
RECURSIVE entryAt(_, _)
entryAt(dir, path) ==
    IF path = <<>> THEN <<dir>>
    ELSE IF dir.kind # "dir" \/ ~dir.ok THEN <<>>
    ELSE LET hits == { i \in 1..Len(dir.children) :
                          dir.children[i].name = Head(path) }
         IN  IF hits = {} THEN <<>>
             ELSE entryAt(dir.children[CHOOSE i \in hits : TRUE], Tail(path))

\* a candidate path yields something when a regular file stands there and
\* its text parses
yields(base, path) ==
    /\ entryAt(base, path) # <<>>
    /\ entryAt(base, path)[1].kind = "file"
    /\ entryAt(base, path)[1].content # <<>>

ManifestPaths ==
    << <<NameProject, NameSources, NameDependenciesJson>>,
       <<NameSources, NameDependenciesJson>> >>

\* the parsed content of the first candidate that yields, null if none,
\* the literal null being null as well
expectedManifest(base) ==
    IF yields(base, ManifestPaths[1])
    THEN IF entryAt(base, ManifestPaths[1])[1].content = <<"null">>
         THEN <<>> ELSE entryAt(base, ManifestPaths[1])[1].content
    ELSE IF yields(base, ManifestPaths[2])
    THEN IF entryAt(base, ManifestPaths[2])[1].content = <<"null">>
         THEN <<>> ELSE entryAt(base, ManifestPaths[2])[1].content
    ELSE <<>>

\* C11: the dependencies of a component are the parsed content of the
\* first of <base>/Project/Sources/dependencies.json and
\* <base>/Sources/dependencies.json that exists and parses, null when
\* neither does; the base is the matched .4dbase folder for the 4Dbase
\* shape and the searched directory for the Project shape; a candidate
\* that is missing or unparsable adds no error.
C11_ManifestLookup ==
    (pc = "returned" /\ input.ok) =>
        /\ output.atRoot.componentType = "4Dbase" =>
              LET hits == { i \in 1..Len(input.children) :
                              /\ input.children[i].kind = "dir"
                              /\ hasSuffixIgnoringCase(input.children[i].name,
                                                       Dot4dbase) }
                  base == input.children[CHOOSE i \in hits :
                                             \A j \in hits : i <= j]
              IN  output.atRoot.dependencies = expectedManifest(base)
        /\ output.atRoot.componentType = "Project" =>
              output.atRoot.dependencies = expectedManifest(input)
        /\ output.atRoot.componentType \in {"4Dbase", "Project"} =>
              /\ output.validate.dependencies = output.atRoot.dependencies
              /\ output.validate.errors = <<>>

C11_Witness ==
    /\ pc = "returned"
    /\ output.atRoot.componentType = "4Dbase"
    /\ \E i \in 1..Len(input.children) :
          /\ input.children[i].name = Name4dbase
          /\ entryAt(input.children[i], ManifestPaths[1]) # <<>>
          /\ ~yields(input.children[i], ManifestPaths[1])
          /\ yields(input.children[i], ManifestPaths[2])
    /\ yields(input, ManifestPaths[2])
    /\ output.validate.dependencies = DepsBaz
    /\ output.validate.errors = <<>>

-----------------------------------------------------------------------------
(* GitHubClient.parseRepoPath on its own, followed by the first step of    *)
(* validateRepository on the same path                                     *)

MaxPathLen == 4

PathChars == {"o", "F", "/", " "}

RECURSIVE stringsUpTo(_, _)
stringsUpTo(chars, n) ==
    IF n = 0 THEN {<<>>}
    ELSE LET shorter == stringsUpTo(chars, n - 1)
         IN  shorter \cup { Append(t, c) : t \in shorter, c \in chars }

PathPool == stringsUpTo(PathChars, MaxPathLen)

InitParse ==
    /\ pc = "call"
    /\ input \in PathPool
    /\ output = <<>>
    /\ repoPath = input
    /\ optRelease = <<>>
    /\ optFull \in BOOLEAN
    /\ token = <<>>
    /\ repo = <<>>
    /\ releases = <<>>
    /\ releasesToCheck = <<>>
    /\ idx = 1
    /\ result = NewValidationResult(repoPath)
    /\ rr = <<>>
    /\ matchingZip = <<>>
    /\ tempDir = <<>>
    /\ disk = {}
    /\ extracted = <<>>
    /\ calls = <<>>

ApplyParse ==
    /\ pc = "call"
    /\ output' = parseRepoPath(input)
    /\ pc' = "start"
    /\ UNCHANGED <<IdleVars, input>>

NextParse ==
    \/ ApplyParse
    \/ Start

SpecParse == InitParse /\ [][NextParse]_vars

\* the positions of the separator in an identifier
slashes(s) ==
    { i \in 1..Len(s) : s[i] = "/" }

\* an identifier made of exactly two non-empty segments around one '/'
twoSegments(s) ==
    /\ Cardinality(slashes(s)) = 1
    /\ \A k \in slashes(s) : 1 < k /\ k < Len(s)

ownerOf(s) ==
    SubSeq(s, 1, (CHOOSE k \in slashes(s) : TRUE) - 1)

nameOf(s) ==
    SubSeq(s, (CHOOSE k \in slashes(s) : TRUE) + 1, Len(s))

\* an identifier without the spaces before its first and after its last
\* character that is not a space
withoutOuterSpace(s) ==
    LET solid == { i \in 1..Len(s) : s[i] # " " }
    IN  IF solid = {} THEN <<>>
        ELSE SubSeq(s, CHOOSE i \in solid : \A j \in solid : i <= j,
                       CHOOSE i \in solid : \A j \in solid : j <= i)

\* validateRepository returned a result that is not valid, holds the
\* malformed-reference error alone, and no network call was made
RejectedAtStart ==
    /\ pc = "done"
    /\ ~result.valid
    /\ Len(result.errors) = 1
    /\ result.errors[1] = Err("Invalid repository path", repoPath)
    /\ result.releases = <<>>
    /\ calls = <<>>

\* C12 as stated: every identifier of exactly two non-empty segments
\* around one '/' is parsed to its owner and name unchanged, every other
\* identifier fails, and validateRepository then returns valid = false
\* with that single error and without a network call.
C12_TwoSegmentsUnchanged ==
    /\ pc # "call" =>
          IF twoSegments(input)
          THEN output = <<[owner |-> ownerOf(input), repo |-> nameOf(input)]>>
          ELSE output = <<>>
    /\ (pc \notin {"call", "start"} /\ ~twoSegments(input)) => RejectedAtStart

\* C12: the same, for the identifier without its surrounding white space:
\* parseRepoPath removes leading and trailing white space first, and it is
\* the owner and name of what remains that are returned unchanged in case
\* and content, or what remains that is malformed.
C12_TrimmedTwoSegments ==
    /\ pc # "call" =>
          IF twoSegments(withoutOuterSpace(input))
          THEN output = <<[owner |-> ownerOf(withoutOuterSpace(input)),
                           repo  |-> nameOf(withoutOuterSpace(input))]>>
          ELSE output = <<>>
    /\ pc \notin {"call", "start"} =>
          IF twoSegments(withoutOuterSpace(input))
          THEN /\ pc \in {"getRepository", "getReleases"}
               /\ repo = nameOf(withoutOuterSpace(input))
               /\ result.errors = <<>>
          ELSE RejectedAtStart

C12_Witness ==
    /\ pc \in {"getRepository", "getReleases"}
    /\ input # withoutOuterSpace(input)
    /\ output = <<[owner |-> <<"o">>, repo |-> <<"F">>]>>
    /\ repo = <<"F">>

-----------------------------------------------------------------------------
(* validateRelease run by several validations that share one ZipHandler    *)
(* root: lines 248-277 from createTempDir to cleanup, the disk in common   *)

MaxValidations == 2

Validations == 1..MaxValidations

\* the values Date.now() may return to validations that overlap
ScratchClock == {1, 2}

InitScratch ==
    /\ pc = [v \in Validations |-> "createTempDir"]
    /\ tempDir = [v \in Validations |-> <<>>]
    /\ rr = [v \in Validations |-> <<>>]
    /\ disk = {}
    /\ calls = <<>>
    /\ repoPath = <<>>
    /\ optRelease = <<>>
    /\ optFull = FALSE
    /\ token = <<>>
    /\ repo = <<>>
    /\ releases = <<>>
    /\ releasesToCheck = <<>>
    /\ idx = 1
    /\ result = NewValidationResult(<<>>)
    /\ matchingZip = <<>>
    /\ extracted = <<>>
    /\ input = <<>>
    /\ output = <<>>

ScratchFixed ==
    <<repoPath, optRelease, optFull, token, repo, releases, releasesToCheck,
      idx, result, matchingZip, extracted, input, output>>

\* line 249: mkdir with recursive: true resolves whether or not the
\* directory is already there
ScratchCreateTempDir(v) ==
    /\ pc[v] = "createTempDir"
    /\ \/ \E time \in ScratchClock, random \in RandTokens :
             /\ tempDir' = [tempDir EXCEPT ![v] = <<createTempDir(time, random)>>]
             /\ disk' = disk \cup {createTempDir(time, random)}
             /\ calls' = Append(calls, [op |-> "mkdir", by |-> v,
                                        dir |-> createTempDir(time, random)])
             /\ pc' = [pc EXCEPT ![v] = "download"]
             /\ rr' = rr
       \/ /\ rr' = [rr EXCEPT ![v] = Append(@, "mkdir")]
          /\ pc' = [pc EXCEPT ![v] = "done"]
          /\ UNCHANGED <<tempDir, disk, calls>>
    /\ UNCHANGED ScratchFixed

\* a step that reads or writes below the scratch directory: lines 252-253
\* (writeFile), 255-257 (unzip) and 259-260 (readdir); it fails when the
\* directory is gone, and may fail for a reason of its own
ScratchStep(v, at, then) ==
    /\ \E ok \in (IF tempDir[v][1] \in disk THEN BOOLEAN ELSE {FALSE}) :
          IF ok
          THEN /\ pc' = [pc EXCEPT ![v] = then]
               /\ rr' = rr
          ELSE /\ pc' = [pc EXCEPT ![v] = "cleanup"]
               /\ rr' = [rr EXCEPT ![v] = Append(@, at)]
    /\ UNCHANGED <<ScratchFixed, tempDir, disk, calls>>

ScratchDownload(v) ==
    /\ pc[v] = "download"
    /\ ScratchStep(v, "download", "extract")

ScratchExtract(v) ==
    /\ pc[v] = "extract"
    /\ ScratchStep(v, "extract", "validate")

ScratchValidate(v) ==
    /\ pc[v] = "validate"
    /\ ScratchStep(v, "validate", "cleanup")

\* lines 273-277
ScratchCleanup(v) ==
    /\ pc[v] = "cleanup"
    /\ \E removed \in BOOLEAN :
          /\ disk' = cleanup(disk, tempDir[v][1], removed)
          /\ calls' = Append(calls, [op |-> "rm", by |-> v,
                                     dir |-> tempDir[v][1]])
    /\ pc' = [pc EXCEPT ![v] = "done"]
    /\ UNCHANGED <<ScratchFixed, tempDir, rr>>

NextScratch ==
    \/ \E v \in Validations : ScratchCreateTempDir(v)
    \/ \E v \in Validations : ScratchDownload(v)
    \/ \E v \in Validations : ScratchExtract(v)
    \/ \E v \in Validations : ScratchValidate(v)
    \/ \E v \in Validations : ScratchCleanup(v)

SpecScratch == InitScratch /\ [][NextScratch]_vars

\* a validation between its allocation and its cleanup
InProgress(v) ==
    pc[v] \in {"download", "extract", "validate", "cleanup"}

\* C13: the scratch directories returned by createTempDir to validations
\* sharing one root are pairwise different, and the directory of a
\* validation still in progress is on disk, whatever another validation
\* cleaned up.
C13_ScratchUnique ==
    /\ \A i, j \in 1..Len(calls) :
          (i # j /\ calls[i].op = "mkdir" /\ calls[j].op = "mkdir")
              => calls[i].dir # calls[j].dir
    /\ \A v \in Validations :
          (InProgress(v) /\ \A i \in 1..Len(calls) :
                               ~(calls[i].op = "rm" /\ calls[i].by = v))
              => tempDir[v][1] \in disk

-----------------------------------------------------------------------------
(* Order of the steps of one release                                       *)

\* the steps of validateRelease before cleanup, in the order of the text
PipelineSteps ==
    <<"match", "mkdir", "downloadAsset", "unzip", "validate">>

\* the positions in the call history of what was done for a release
positionsOf(tag) ==
    { k \in 1..Len(calls) : calls[k].op \in ReleaseOps /\ calls[k].tag = tag }

\* the calls made for a release, oldest first
callsOf(tag) ==
    LET forTag(c) == c.op \in ReleaseOps /\ c.tag = tag
    IN  SelectSeq(calls, forTag)

\* the calls made for a release, cleanup left out
stepsOf(tag) ==
    LET isStep(c) == c.op # "rm"
    IN  SelectSeq(callsOf(tag), isStep)

hasMatchingAsset(release) ==
    \E i \in 1..Len(release.assets) :
        isMatchingArchive(release.assets[i].name, repo)

\* C14: what is done for one release is done in one stretch, in the order
\* matching, scratch allocation, download, extraction, classification,
\* each of them only after the one before succeeded, cleanup coming last
\* and only after an allocation; a release without a matching asset gets
\* no allocation, download or extraction.
C14_StepsOrdered ==
    \A r \in 1..Len(releases) :
        LET tag   == releases[r].tag_name
            all   == callsOf(tag)
            steps == stepsOf(tag)
        IN  /\ \A i, j \in positionsOf(tag) :
                  \A k \in i..j : k \in positionsOf(tag)
            /\ (all # <<>> /\ all[1].op = "skip") => Len(all) = 1
            /\ (all # <<>> /\ all[1].op # "skip") =>
                  /\ Len(steps) <= Len(PipelineSteps)
                  /\ \A k \in 1..Len(steps) :
                        /\ steps[k].op = PipelineSteps[k]
                        /\ k > 1 => steps[k - 1].ok
                  /\ \A k \in 1..Len(all) :
                        all[k].op = "rm" =>
                            /\ k = Len(all)
                            /\ Len(steps) >= 2
                            /\ steps[2].ok
            /\ ~hasMatchingAsset(releases[r]) =>
                  \A k \in 1..Len(all) : all[k].op \in {"skip", "match"}

C14_Witness ==
    /\ pc = "push"
    /\ Len(releases) = 2
    /\ [k \in 1..Len(callsOf(releases[1].tag_name)) |->
           callsOf(releases[1].tag_name)[k].op] = <<"match">>
    /\ ~hasMatchingAsset(releases[1])
    /\ [k \in 1..Len(callsOf(releases[2].tag_name)) |->
           callsOf(releases[2].tag_name)[k].op]
          = PipelineSteps \o <<"rm">>

-----------------------------------------------------------------------------
(* Headers of the network calls                                            *)

NetworkOps ==
    {"getRepository", "getReleases", "downloadAsset"}

\* C15: every network call carries the User-Agent header and, when a
\* token was supplied, the Authorization header.
C15_HeadersOnEveryCall ==
    \A k \in 1..Len(calls) :
        calls[k].op \in NetworkOps =>
            /\ "User-Agent" \in calls[k].headers
            /\ token # <<>> => "Authorization" \in calls[k].headers

-----------------------------------------------------------------------------
(* Errors and validity                                                     *)

\* C16: at every return of validateRepository, result.errors is empty
\* exactly when result.valid is true, and every recorded release has an
\* empty errors list when its componentValid is true and a non-empty one
\* when it is false.
C16_ErrorsIffInvalid ==
    Returned =>
        /\ result.errors = <<>> <=> result.valid
        /\ \A i \in 1..Len(result.releases) :
              result.releases[i].errors = <<>>
                  <=> result.releases[i].componentValid

C16_Witness ==
    /\ Returned
    /\ result.valid
    /\ result.errors = <<>>
    /\ Len(result.releases) = 2
    /\ \E i, j \in 1..2 :
          /\ result.releases[i].componentValid
          /\ result.releases[i].errors = <<>>
          /\ ~result.releases[j].componentValid
          /\ result.releases[j].hasMatchingZip
          /\ result.releases[j].errors # <<>>

-----------------------------------------------------------------------------
(* validateRepository as a function of the release list and of what the    *)
(* try block of validateRelease yields for each release, to compare the    *)
(* default mode with the all-releases mode on the same inputs              *)

\* what the try block may yield for a release with a matching asset
PipelineOutcomes == {"component", "no component", "failed"}

\* lines 201-280, the outcome of the try block given
validateReleaseWith(release, expectedRepoName, outcome) ==
    LET m == matchRelease(release, expectedRepoName, FALSE)
    IN  IF m.zip = <<>> THEN m.res
        ELSE IF outcome = "component"
        THEN [m.res EXCEPT !.componentValid = TRUE, !.componentType = "4DZ"]
        ELSE IF outcome = "no component"
        THEN [m.res EXCEPT !.errors = @ \o validate(Dir(NameExtracted, <<>>),
                                                   expectedRepoName).errors]
        ELSE [m.res EXCEPT !.errors =
                 Append(@, Err("Failed to validate ZIP", <<"unzip failed">>))]

\* lines 165-181: the for-loop from release i on, recorded being
\* result.releases so far
RECURSIVE checkReleases(_, _, _, _, _, _)
checkReleases(toCheck, outcomes, expectedRepoName, release, i, recorded) ==
    IF i > Len(toCheck) THEN recorded
    ELSE IF ~\E k \in DOMAIN toCheck[i].assets : isZipAsset(toCheck[i].assets[k])
    THEN checkReleases(toCheck, outcomes, expectedRepoName, release, i + 1,
                       recorded)
    ELSE LET releaseResult == validateReleaseWith(toCheck[i], expectedRepoName,
                                                  outcomes[toCheck[i].tag_name])
         IN  IF shouldStop(release, releaseResult)
             THEN Append(recorded, releaseResult)
             ELSE checkReleases(toCheck, outcomes, expectedRepoName, release,
                                i + 1, Append(recorded, releaseResult))

\* lines 133-192: the releases recorded and the verdict, the listing given
validateListed(rs, outcomes, expectedRepoName, release) ==
    LET selected == selectReleases(rs, release)
        recorded == IF Len(rs) = 0 \/ selected = <<>> THEN <<>>
                    ELSE checkReleases(selected[1], outcomes, expectedRepoName,
                                       release, 1, <<>>)
    IN  [releases |-> recorded, valid |-> isValid(recorded)]

InitModes ==
    /\ Idle
    /\ pc = "call"
    /\ \E rs \in ReleaseLists :
          input \in [releases : {rs},
                     outcomes : [{rs[i].tag_name : i \in 1..Len(rs)}
                                    -> PipelineOutcomes]]
    /\ output = <<>>

ApplyModes ==
    /\ pc = "call"
    /\ output' = [default |-> validateListed(input.releases, input.outcomes,
                                             <<"F", "o", "o">>, <<>>),
                  all     |-> validateListed(input.releases, input.outcomes,
                                             <<"F", "o", "o">>, <<"*">>)]
    /\ pc' = "returned"
    /\ UNCHANGED <<IdleVars, input>>

NextModes ==
    ApplyModes

SpecModes == InitModes /\ [][NextModes]_vars

====
